---- MODULE Spec2Model ----
(***************************************************************************)
(* Model of smoldot's chain-spec (de)serialization types                   *)
(* (src/chain_spec/structs.rs): the hand-written serde impls of HexString, *)
(* HashHexString and NumberAsString, and the derived impls of Genesis,     *)
(* RawGenesis and ClientSpec.                                              *)
(*                                                                         *)
(* A text is a sequence of one-character strings, a byte string a sequence *)
(* of integers in 0..255.  A u64 is kept as its decimal numeral (a         *)
(* sequence of digits without leading zeros), because 2^64 does not fit    *)
(* the model checker's integers.                                           *)
(***************************************************************************)
EXTENDS Integers, Sequences, FiniteSets, TLC

VARIABLES input, hist

vars == <<input, hist>>

(***************************************************************************)
(* Bounds of the explored inputs.                                          *)
(***************************************************************************)
MaxTextLen == 4
MaxBytesLen == 2
MaxEntries == 2
MaxExtra == 2
MaxCalls == 2

(***************************************************************************)
(* Program constants.                                                      *)
(***************************************************************************)
HashLen == 32

(***************************************************************************)
(* Generic helpers.                                                        *)
(***************************************************************************)
SeqsUpTo(S, n) == UNION {[1..k -> S] : k \in 0..n}

Last(s) == s[Len(s)]

Drop(s, n) == SubSeq(s, n + 1, Len(s))

StartsWith(s, p) == Len(s) >= Len(p) /\ SubSeq(s, 1, Len(p)) = p

Prefix0x == <<"0", "x">>

Val(kind, v) == [kind |-> kind, v |-> v]

Err(msg, n) == [kind |-> "err", v |-> [msg |-> msg, n |-> n]]

IsErr(x) == x.kind = "err"

(***************************************************************************)
(* The `hex` crate: encode is lowercase, two digits per byte; decode takes *)
(* both cases and fails on an odd length or a non-hex character.           *)
(***************************************************************************)
LowerHex == <<"0", "1", "2", "3", "4", "5", "6", "7",
              "8", "9", "a", "b", "c", "d", "e", "f">>

UpperHex == <<"0", "1", "2", "3", "4", "5", "6", "7",
              "8", "9", "A", "B", "C", "D", "E", "F">>

HexVal(c) ==
    IF \E i \in 1..16 : LowerHex[i] = c
    THEN (CHOOSE i \in 1..16 : LowerHex[i] = c) - 1
    ELSE IF \E i \in 1..16 : UpperHex[i] = c
    THEN (CHOOSE i \in 1..16 : UpperHex[i] = c) - 1
    ELSE -1

RECURSIVE HexEncode(_)
HexEncode(bytes) ==
    IF bytes = <<>> THEN <<>>
    ELSE <<LowerHex[(bytes[1] \div 16) + 1], LowerHex[(bytes[1] % 16) + 1]>>
         \o HexEncode(Tail(bytes))

HexDecodeBytes(hex) ==
    [i \in 1..(Len(hex) \div 2) |->
        16 * HexVal(hex[2 * i - 1]) + HexVal(hex[2 * i])]

HexDecode(hex) ==
    IF Len(hex) % 2 # 0 THEN Err("hex: odd number of digits", Len(hex))
    ELSE IF \E i \in 1..Len(hex) : HexVal(hex[i]) = -1
    THEN Err("hex: invalid character",
             CHOOSE i \in 1..Len(hex) :
                 /\ HexVal(hex[i]) = -1
                 /\ \A j \in 1..(i - 1) : HexVal(hex[j]) # -1)
    ELSE Val("bytes", HexDecodeBytes(hex))

(***************************************************************************)
(* HexString                                                               *)
(***************************************************************************)
\* the prefix forgotten
HexStringSerializeNoPrefix(self) == Val("text", HexEncode(self))

HexStringSerialize(self) == Val("text", Prefix0x \o HexEncode(self))

\* a text without prefix taken as hex digits
HexStringDeserializeLenient(string) ==
    IF StartsWith(string, Prefix0x)
    THEN LET bytes == HexDecode(Drop(string, 2))
         IN  IF IsErr(bytes) THEN bytes ELSE Val("HexString", bytes.v)
    ELSE LET bytes == HexDecode(string)
         IN  IF IsErr(bytes) THEN bytes ELSE Val("HexString", bytes.v)

HexStringDeserialize(string) ==
    IF StartsWith(string, Prefix0x)
    THEN LET bytes == HexDecode(Drop(string, 2))
         IN  IF IsErr(bytes) THEN bytes ELSE Val("HexString", bytes.v)
    ELSE Err("hexadecimal string doesn't start with 0x", 0)

(***************************************************************************)
(* HashHexString                                                           *)
(***************************************************************************)
HashHexStringSerialize(self) == Val("text", Prefix0x \o HexEncode(self))

\* only a short hash refused, a long one cut to 32 bytes
HashHexStringDeserializeTruncating(string) ==
    IF ~StartsWith(string, Prefix0x)
    THEN Err("hash doesn't start with 0x", 0)
    ELSE LET bytes == HexDecode(Drop(string, 2))
         IN  IF IsErr(bytes) THEN bytes
             ELSE IF Len(bytes.v) < HashLen
             THEN Err("invalid length, expected a 32 bytes hash", Len(bytes.v))
             ELSE Val("HashHexString", SubSeq(bytes.v, 1, HashLen))

HashHexStringDeserialize(string) ==
    IF ~StartsWith(string, Prefix0x)
    THEN Err("hash doesn't start with 0x", 0)
    ELSE LET bytes == HexDecode(Drop(string, 2))
         IN  IF IsErr(bytes) THEN bytes
             ELSE IF Len(bytes.v) # HashLen
             THEN Err("invalid length, expected a 32 bytes hash", Len(bytes.v))
             ELSE Val("HashHexString", bytes.v)

(***************************************************************************)
(* NumberAsString.  `str::parse::<u64>`: an optional leading `+`, then at  *)
(* least one decimal digit, nothing else, and no overflow of 2^64 - 1.     *)
(***************************************************************************)
Digits == <<"0", "1", "2", "3", "4", "5", "6", "7", "8", "9">>

DigitVal(c) ==
    IF \E i \in 1..10 : Digits[i] = c
    THEN (CHOOSE i \in 1..10 : Digits[i] = c) - 1
    ELSE -1

\* 18446744073709551615
U64MaxNumeral == <<1, 8, 4, 4, 6, 7, 4, 4, 0, 7, 3, 7, 0, 9, 5, 5, 1, 6, 1, 5>>

RECURSIVE StripZeros(_)
StripZeros(ds) ==
    IF Len(ds) > 1 /\ ds[1] = 0 THEN StripZeros(Tail(ds)) ELSE ds

\* numeral a is greater than numeral b (both without leading zeros)
NumeralGreater(a, b) ==
    \/ Len(a) > Len(b)
    \/ /\ Len(a) = Len(b)
       /\ \E i \in 1..Len(a) :
            /\ a[i] > b[i]
            /\ \A j \in 1..(i - 1) : a[j] = b[j]

ParseU64(string) ==
    LET body == IF Len(string) > 1 /\ string[1] = "+" THEN Tail(string)
                ELSE string
    IN  IF string = <<>> THEN Err("cannot parse integer from empty string", 0)
        ELSE IF \E i \in 1..Len(body) : DigitVal(body[i]) = -1
        THEN Err("invalid digit found in string", 0)
        ELSE LET num == StripZeros([i \in 1..Len(body) |-> DigitVal(body[i])])
             IN  IF NumeralGreater(num, U64MaxNumeral)
                 THEN Err("number too large to fit in target type", 0)
                 ELSE Val("u64", num)

\* the decoder without the hexadecimal form
NumberAsStringDeserializeDecimalOnly(string) ==
    LET num == ParseU64(string)
    IN  IF ~IsErr(num) THEN Val("NumberAsString", num.v)
        ELSE Err("block number is neither hexadecimal nor decimal", 0)

NumberAsStringDeserialize(string) ==
    IF StartsWith(string, Prefix0x)
    THEN LET bytes == HexDecode(Drop(string, 2))
         IN  IF IsErr(bytes) THEN bytes ELSE Val("NumberAsString", <<0>>)
    ELSE LET num == ParseU64(string)
         IN  IF ~IsErr(num) THEN Val("NumberAsString", num.v)
             ELSE Err("block number is neither hexadecimal nor decimal", 0)

\* u64 as a JSON map key: its decimal digits
NumberAsStringSerialize(self) ==
    Val("text", [i \in 1..Len(self) |-> Digits[self[i] + 1]])

(***************************************************************************)
(* JSON values, as the deserializers see them: Val("null", 0),             *)
(* Val("str", text), Val("num", n), Val("arr", <<values>>) and             *)
(* Val("obj", <<entries>>) with entries <<key, value>> in document order.  *)
(* Keys of structs are field names; keys of maps are texts.                *)
(***************************************************************************)
JNull == Val("null", 0)

JStr(text) == Val("str", text)

JNum(n) == Val("num", n)

JArr(items) == Val("arr", items)

JObj(entries) == Val("obj", entries)

InvalidType(expected) == Err("invalid type", expected)

None == Val("None", 0)

Some(x) == Val("Some", x)

\* index of the first element of 1..n satisfying the (non-empty) set of indices
MinOf(S) == CHOOSE i \in S : \A j \in S : i <= j

RangeOf(s) == {s[i] : i \in 1..Len(s)}

(***************************************************************************)
(* #[derive(Deserialize)] #[serde(deny_unknown_fields)] on a struct        *)
(* without flattened fields, read from a JSON object: the entries are      *)
(* visited in order; an unknown key, a repeated key or a field whose value *)
(* fails to decode ends the decode at that entry; then every field that    *)
(* never appeared is a missing field.  values[i] is the decoded value of   *)
(* entry i.  The result is Val("struct", f), f mapping field to value.     *)
(***************************************************************************)
StructEntry(entries, fields, values, i) ==
    IF entries[i][1] \notin RangeOf(fields)
    THEN Err("unknown field", entries[i][1])
    ELSE IF \E j \in 1..(i - 1) : entries[j][1] = entries[i][1]
    THEN Err("duplicate field", entries[i][1])
    ELSE values[i]

StructBad(entries, fields, values) ==
    {i \in 1..Len(entries) : IsErr(StructEntry(entries, fields, values, i))}

StructMissing(entries, fields) ==
    {k \in 1..Len(fields) : \A i \in 1..Len(entries) : entries[i][1] # fields[k]}

StructVisitMap(entries, fields, values) ==
    IF StructBad(entries, fields, values) # {}
    THEN StructEntry(entries, fields, values,
                     MinOf(StructBad(entries, fields, values)))
    ELSE IF StructMissing(entries, fields) # {}
    THEN Err("missing field", fields[MinOf(StructMissing(entries, fields))])
    ELSE Val("struct",
             [f \in RangeOf(fields) |->
                values[CHOOSE i \in 1..Len(entries) : entries[i][1] = f].v])

\* the same struct read from a JSON array: the fields by position; values[i]
\* is item i decoded as field i
SeqBad(items, fields, values) ==
    {i \in 1..Len(items) : i <= Len(fields) /\ IsErr(values[i])}

StructVisitSeq(items, fields, values) ==
    IF SeqBad(items, fields, values) # {}
    THEN values[MinOf(SeqBad(items, fields, values))]
    ELSE IF Len(items) < Len(fields) THEN Err("invalid length", Len(items))
    ELSE IF Len(items) > Len(fields) THEN Err("trailing characters", 0)
    ELSE Val("struct",
             [f \in RangeOf(fields) |->
                values[CHOOSE i \in 1..Len(fields) : fields[i] = f].v])

FieldAt(fields, i) == IF i <= Len(fields) THEN fields[i] ELSE ""

(***************************************************************************)
(* Collections.  The elements are decoded by the caller; the first element *)
(* that failed to decode fails the collection.                             *)
(***************************************************************************)
\* Vec<T>
VecBad(results) == {i \in 1..Len(results) : IsErr(results[i])}

VecVisit(results) ==
    IF VecBad(results) # {} THEN results[MinOf(VecBad(results))]
    ELSE Val("Vec", [i \in 1..Len(results) |-> results[i].v])

\* a map: a later entry with the same decoded key replaces the earlier one.
\* A map is a function from key to value.
MapBad(keys, values) ==
    {i \in 1..Len(keys) : IsErr(keys[i]) \/ IsErr(values[i])}

MapLast(keys, k) ==
    CHOOSE i \in 1..Len(keys) :
        /\ keys[i].v = k
        /\ \A j \in (i + 1)..Len(keys) : keys[j].v # k

MapFirstError(keys, values, i) == IF IsErr(keys[i]) THEN keys[i] ELSE values[i]

MapVisit(keys, values) ==
    IF MapBad(keys, values) # {}
    THEN MapFirstError(keys, values, MinOf(MapBad(keys, values)))
    ELSE Val("Map", [k \in {keys[i].v : i \in 1..Len(keys)} |->
                        values[MapLast(keys, k)].v])

\* Option<T>: null is None, anything else is Some(T)
OptionVisit(json, result) ==
    IF json.kind = "null" THEN None
    ELSE IF IsErr(result) THEN result
    ELSE Some(result.v)

\* a pair (A, B), written as a JSON array of two elements
PairVisit(len, a, b) ==
    IF len = 0 THEN Err("invalid length", 0)
    ELSE IF IsErr(a) THEN a
    ELSE IF len = 1 THEN Err("invalid length", 1)
    ELSE IF IsErr(b) THEN b
    ELSE IF len > 2 THEN Err("trailing characters", 0)
    ELSE Val("pair", <<a.v, b.v>>)

At(items, i) == IF i <= Len(items) THEN items[i] ELSE JNull

(***************************************************************************)
(* Primitive fields.                                                       *)
(***************************************************************************)
StringDeserialize(json) ==
    IF json.kind = "str" THEN Val("String", json.v) ELSE InvalidType("a string")

\* 0 <= n < 2^32, written so that no intermediate value exceeds 2^31
U32Deserialize(json) ==
    IF json.kind = "num" /\ json.v >= 0 /\ json.v \div 65536 < 65536
    THEN Val("u32", json.v) ELSE InvalidType("u32")

U8Deserialize(json) ==
    IF json.kind = "num" /\ json.v >= 0 /\ json.v < 256
    THEN Val("u8", json.v) ELSE InvalidType("u8")

\* a u64 written as a JSON number
U64Deserialize(json) ==
    IF json.kind = "num" /\ json.v >= 0 THEN Val("u64", json.v)
    ELSE InvalidType("u64")

UnitDeserialize(json) ==
    IF json.kind = "null" THEN Val("unit", 0) ELSE InvalidType("unit")

\* the hand-written codecs, given a JSON value
HexStringFromJson(json) ==
    IF json.kind = "str" THEN HexStringDeserialize(json.v)
    ELSE InvalidType("a string")

HashHexStringFromJson(json) ==
    IF json.kind = "str" THEN HashHexStringDeserialize(json.v)
    ELSE InvalidType("a string")

HexStringToJson(self) == JStr(HexStringSerialize(self).v)

HashHexStringToJson(self) == JStr(HashHexStringSerialize(self).v)

(***************************************************************************)
(* ChildRawStorage                                                         *)
(***************************************************************************)
ChildRawStorageFields == <<"childInfo", "childType">>

ChildInfoDeserialize(json) ==
    IF json.kind # "arr" THEN InvalidType("a sequence")
    ELSE VecVisit([i \in 1..Len(json.v) |-> U8Deserialize(json.v[i])])

ChildRawStorageField(key, json) ==
    CASE key = "childInfo" -> ChildInfoDeserialize(json)
      [] key = "childType" -> U32Deserialize(json)
      [] OTHER -> Err("unknown field", key)

ChildRawStorageDeserialize(json) ==
    IF json.kind = "obj"
    THEN StructVisitMap(json.v, ChildRawStorageFields,
            [i \in 1..Len(json.v) |->
                ChildRawStorageField(json.v[i][1], json.v[i][2])])
    ELSE IF json.kind = "arr"
    THEN StructVisitSeq(json.v, ChildRawStorageFields,
            [i \in 1..Len(json.v) |->
                ChildRawStorageField(FieldAt(ChildRawStorageFields, i), json.v[i])])
    ELSE InvalidType("struct ChildRawStorage")

ChildRawStorageSerialize(self) ==
    JObj(<<
        <<"childInfo", JArr([i \in 1..Len(self.childInfo) |->
                                JNum(self.childInfo[i])])>>,
        <<"childType", JNum(self.childType)>> >>)

(***************************************************************************)
(* BTreeMap<HexString, V> is iterated (and so encoded) in the order of the *)
(* derived Ord of HexString: the lexicographic order of Vec<u8>.           *)
(***************************************************************************)
\* the bytes compared as signed (i8)
BytesLessSigned(a, b) ==
    \/ /\ Len(a) < Len(b)
       /\ \A i \in 1..Len(a) : a[i] = b[i]
    \/ \E i \in 1..(IF Len(a) < Len(b) THEN Len(a) ELSE Len(b)) :
            /\ ((a[i] + 128) % 256) < ((b[i] + 128) % 256)
            /\ \A j \in 1..(i - 1) : a[j] = b[j]

\* <[u8] as Ord>::cmp(a, b) = Less
BytesLess(a, b) ==
    \/ /\ Len(a) < Len(b)
       /\ \A i \in 1..Len(a) : a[i] = b[i]
    \/ \E i \in 1..(IF Len(a) < Len(b) THEN Len(a) ELSE Len(b)) :
            /\ a[i] < b[i]
            /\ \A j \in 1..(i - 1) : a[j] = b[j]

BTreeFirst(keys) == CHOOSE k \in keys : \A o \in keys \ {k} : BytesLess(k, o)

RECURSIVE BTreeIter(_)
BTreeIter(keys) ==
    IF keys = {} THEN <<>>
    ELSE <<BTreeFirst(keys)>> \o BTreeIter(keys \ {BTreeFirst(keys)})

(***************************************************************************)
(* RawGenesis                                                              *)
(***************************************************************************)
RawGenesisFields == <<"top", "childrenDefault">>

TopDeserialize(json) ==
    IF json.kind # "obj" THEN InvalidType("a map")
    ELSE MapVisit([i \in 1..Len(json.v) |-> HexStringDeserialize(json.v[i][1])],
                  [i \in 1..Len(json.v) |-> HexStringFromJson(json.v[i][2])])

ChildrenDefaultDeserialize(json) ==
    IF json.kind # "obj" THEN InvalidType("a map")
    ELSE MapVisit([i \in 1..Len(json.v) |-> HexStringDeserialize(json.v[i][1])],
                  [i \in 1..Len(json.v) |->
                        ChildRawStorageDeserialize(json.v[i][2])])

RawGenesisField(key, json) ==
    CASE key = "top" -> TopDeserialize(json)
      [] key = "childrenDefault" -> ChildrenDefaultDeserialize(json)
      [] OTHER -> Err("unknown field", key)

RawGenesisDeserialize(json) ==
    IF json.kind = "obj"
    THEN StructVisitMap(json.v, RawGenesisFields,
            [i \in 1..Len(json.v) |->
                RawGenesisField(json.v[i][1], json.v[i][2])])
    ELSE IF json.kind = "arr"
    THEN StructVisitSeq(json.v, RawGenesisFields,
            [i \in 1..Len(json.v) |->
                RawGenesisField(FieldAt(RawGenesisFields, i), json.v[i])])
    ELSE InvalidType("struct RawGenesis")

TopSerialize(map, order) ==
    JObj([i \in 1..Len(order) |->
            <<HexStringSerialize(order[i]).v, HexStringToJson(map[order[i]])>>])

ChildrenDefaultSerialize(map, order) ==
    JObj([i \in 1..Len(order) |->
            <<HexStringSerialize(order[i]).v,
              ChildRawStorageSerialize(map[order[i]])>>])

RawGenesisSerialize(self) ==
    JObj(<<
        <<"top", TopSerialize(self.top, BTreeIter(DOMAIN self.top))>>,
        <<"childrenDefault",
          ChildrenDefaultSerialize(self.childrenDefault,
                                   BTreeIter(DOMAIN self.childrenDefault))>> >>)

(***************************************************************************)
(* Genesis: an externally tagged enum of two newtype variants.  From a     *)
(* JSON object the first key selects the variant, its value is decoded,    *)
(* and the object must end there; a bare string names a unit variant,      *)
(* which neither variant is.                                               *)
(***************************************************************************)
GenesisVariants == {"raw", "stateRootHash"}

\* Genesis::Raw(_) or Genesis::StateRootHash(_)
GenesisWrap(variant, value) ==
    IF IsErr(value) THEN value ELSE Val(variant, value.v)

GenesisVariant(tag, json) ==
    IF tag = "raw" THEN GenesisWrap("Raw", RawGenesisDeserialize(json))
    ELSE GenesisWrap("StateRootHash", HashHexStringFromJson(json))

\* the keys after the first one ignored
GenesisEndLenient(entries, value) == value

\* the object must close after the variant's value
GenesisEnd(entries, value) ==
    IF IsErr(value) THEN value
    ELSE IF Len(entries) > 1 THEN Err("expected value", 1)
    ELSE value

GenesisDeserialize(json) ==
    IF json.kind = "obj"
    THEN IF json.v = <<>> THEN Err("expected value", 0)
         ELSE IF json.v[1][1] \notin GenesisVariants
         THEN Err("unknown variant", json.v[1][1])
         ELSE GenesisEnd(json.v, GenesisVariant(json.v[1][1], json.v[1][2]))
    ELSE IF json.kind = "str"
    THEN Err("invalid type: unit variant, expected newtype variant", 0)
    ELSE Err("expected value", 0)

GenesisSerialize(self) ==
    IF self.kind = "Raw"
    THEN JObj(<< <<"raw", RawGenesisSerialize(self.v)>> >>)
    ELSE JObj(<< <<"stateRootHash", HashHexStringToJson(self.v)>> >>)

(***************************************************************************)
(* Field types of ClientSpec.                                              *)
(***************************************************************************)
UnitVariants == {<<"D", "e", "v", "e", "l", "o", "p", "m", "e", "n", "t">>,
                 <<"L", "o", "c", "a", "l">>,
                 <<"L", "i", "v", "e">>}

ChainTypeLive == Val("unit_variant", <<"L", "i", "v", "e">>)

ChainTypeCustom(name) == IF IsErr(name) THEN name ELSE Val("Custom", name.v)

ChainTypeDeserialize(json) ==
    IF json.kind = "str"
    THEN IF json.v \in UnitVariants THEN Val("unit_variant", json.v)
         ELSE Err("unknown or non-unit variant", 0)
    ELSE IF json.kind = "obj" /\ Len(json.v) = 1 /\ json.v[1][1] = "Custom"
    THEN ChainTypeCustom(StringDeserialize(json.v[1][2]))
    ELSE Err("expected value", 0)

ChainTypeSerialize(self) ==
    IF self.kind = "Custom" THEN JObj(<< <<"Custom", JStr(self.v)>> >>)
    ELSE JStr(self.v)

BootNodesDeserialize(json) ==
    IF json.kind # "arr" THEN InvalidType("a sequence")
    ELSE VecVisit([i \in 1..Len(json.v) |-> StringDeserialize(json.v[i])])

TelemetryEndpointDeserialize(json) ==
    IF json.kind # "arr" THEN InvalidType("a tuple of size 2")
    ELSE PairVisit(Len(json.v), StringDeserialize(At(json.v, 1)),
                   U8Deserialize(At(json.v, 2)))

TelemetryEndpointsDeserialize(json) ==
    IF json.kind # "arr" THEN InvalidType("a sequence")
    ELSE VecVisit([i \in 1..Len(json.v) |->
                        TelemetryEndpointDeserialize(json.v[i])])

ForkBlockDeserialize(json) ==
    IF json.kind # "arr" THEN InvalidType("a tuple of size 2")
    ELSE PairVisit(Len(json.v), U64Deserialize(At(json.v, 1)),
                   HashHexStringFromJson(At(json.v, 2)))

ForkBlocksDeserialize(json) ==
    IF json.kind # "arr" THEN InvalidType("a sequence")
    ELSE VecVisit([i \in 1..Len(json.v) |-> ForkBlockDeserialize(json.v[i])])

\* HashSet<HashHexString>: equal hashes collapse
HashSetOf(list) == IF IsErr(list) THEN list ELSE Val("HashSet", RangeOf(list.v))

BadBlocksDeserialize(json) ==
    IF json.kind # "arr" THEN InvalidType("a sequence")
    ELSE HashSetOf(VecVisit([i \in 1..Len(json.v) |->
                                HashHexStringFromJson(json.v[i])]))

\* a map refusing two keys that decode to the same number
CodeSubstitutesDeserializeStrict(json) ==
    IF json.kind # "obj" THEN InvalidType("a map")
    ELSE IF \E i, j \in 1..Len(json.v) :
                /\ i < j
                /\ ~IsErr(NumberAsStringDeserialize(json.v[i][1]))
                /\ NumberAsStringDeserialize(json.v[i][1])
                        = NumberAsStringDeserialize(json.v[j][1])
    THEN Err("duplicate key", 0)
    ELSE MapVisit([i \in 1..Len(json.v) |->
                        NumberAsStringDeserialize(json.v[i][1])],
                  [i \in 1..Len(json.v) |-> HexStringFromJson(json.v[i][2])])

\* HashMap<NumberAsString, HexString>
CodeSubstitutesDeserialize(json) ==
    IF json.kind # "obj" THEN InvalidType("a map")
    ELSE MapVisit([i \in 1..Len(json.v) |->
                        NumberAsStringDeserialize(json.v[i][1])],
                  [i \in 1..Len(json.v) |-> HexStringFromJson(json.v[i][2])])

\* Box<RawValue>: the JSON text of the value, kept as it is
RawValueDeserialize(json) == Val("RawValue", json)

\* the light-sync-state model is an external collaborator: any JSON object
LightSyncStateDeserialize(json) ==
    IF json.kind = "obj" THEN Val("LightSyncState", json)
    ELSE InvalidType("struct LightSyncState")

(***************************************************************************)
(* ChainSpecParachain, flattened into ClientSpec.  It is decoded from the  *)
(* entries that no field of ClientSpec claimed (`collect`): the entries    *)
(* whose key is one of its two fields are taken in order, until the first  *)
(* repeated key or undecodable value, which is taken too; the field is an  *)
(* Option, so any failure of the struct decodes as None.                   *)
(***************************************************************************)
ChainSpecParachainFields == <<"relay_chain", "para_id">>

ChainSpecParachainField(key, json) ==
    IF key = "relay_chain" THEN StringDeserialize(json)
    ELSE U32Deserialize(json)

ParachainRecognized(collect) ==
    {i \in 1..Len(collect) : collect[i][1] \in RangeOf(ChainSpecParachainFields)}

ParachainProblems(collect) ==
    {i \in ParachainRecognized(collect) :
        \/ \E j \in 1..(i - 1) : collect[j][1] = collect[i][1]
        \/ IsErr(ChainSpecParachainField(collect[i][1], collect[i][2]))}

\* the flattened field swallowing every entry it is offered
ParachainTakenAll(collect) == 1..Len(collect)

ParachainTaken(collect) ==
    IF ParachainProblems(collect) = {} THEN ParachainRecognized(collect)
    ELSE {i \in ParachainRecognized(collect) :
            i <= MinOf(ParachainProblems(collect))}

ParachainDeserialize(collect) ==
    IF /\ ParachainProblems(collect) = {}
       /\ \A f \in RangeOf(ChainSpecParachainFields) :
            \E i \in 1..Len(collect) : collect[i][1] = f
    THEN Some([f \in RangeOf(ChainSpecParachainFields) |->
                ChainSpecParachainField(f,
                    collect[CHOOSE i \in 1..Len(collect) :
                                collect[i][1] = f][2]).v])
    ELSE None

(***************************************************************************)
(* ClientSpec                                                              *)
(***************************************************************************)
ClientSpecFields ==
    <<"name", "id", "chainType", "codeSubstitutes", "bootNodes",
      "telemetryEndpoints", "protocolId", "forkId", "properties",
      "forkBlocks", "badBlocks", "consensusEngine", "genesis",
      "lightSyncState">>

ClientSpecField(key, json) ==
    CASE key = "name" -> StringDeserialize(json)
      [] key = "id" -> StringDeserialize(json)
      [] key = "chainType" -> ChainTypeDeserialize(json)
      [] key = "codeSubstitutes" -> CodeSubstitutesDeserialize(json)
      [] key = "bootNodes" -> BootNodesDeserialize(json)
      [] key = "telemetryEndpoints" ->
            OptionVisit(json, TelemetryEndpointsDeserialize(json))
      [] key = "protocolId" -> OptionVisit(json, StringDeserialize(json))
      [] key = "forkId" -> OptionVisit(json, StringDeserialize(json))
      [] key = "properties" -> OptionVisit(json, RawValueDeserialize(json))
      [] key = "forkBlocks" -> OptionVisit(json, ForkBlocksDeserialize(json))
      [] key = "badBlocks" -> OptionVisit(json, BadBlocksDeserialize(json))
      [] key = "consensusEngine" -> UnitDeserialize(json)
      [] key = "genesis" -> GenesisDeserialize(json)
      [] key = "lightSyncState" ->
            OptionVisit(json, LightSyncStateDeserialize(json))
      [] OTHER -> Val("other", 0)

\* `name` and `id` defaulting to the empty text, as with #[serde(default)]
ClientSpecMissingDefaulted(key) ==
    CASE key = "chainType" -> ChainTypeLive
      [] key = "codeSubstitutes" -> Val("Map", <<>>)
      [] key = "consensusEngine" -> Val("unit", 0)
      [] key \in {"telemetryEndpoints", "protocolId", "forkId", "properties",
                  "forkBlocks", "badBlocks", "lightSyncState"} -> None
      [] key \in {"name", "id"} -> Val("String", <<>>)
      [] OTHER -> Err("missing field", key)

\* a field that does not appear in the document
ClientSpecMissing(key) ==
    CASE key = "chainType" -> ChainTypeLive
      [] key = "codeSubstitutes" -> Val("Map", <<>>)
      [] key = "consensusEngine" -> Val("unit", 0)
      [] key \in {"telemetryEndpoints", "protocolId", "forkId", "properties",
                  "forkBlocks", "badBlocks", "lightSyncState"} -> None
      [] OTHER -> Err("missing field", key)

IsOther(entry) == entry[1] \notin RangeOf(ClientSpecFields)

\* the visit of entry i: visited[i] is the decoded value of entry i
ClientSpecEntry(entries, visited, i) ==
    IF IsOther(entries[i]) THEN Val("other", 0)
    ELSE IF \E j \in 1..(i - 1) : entries[j][1] = entries[i][1]
    THEN Err("duplicate field", entries[i][1])
    ELSE visited[i]

ClientSpecBad(entries, visited) ==
    {i \in 1..Len(entries) : IsErr(ClientSpecEntry(entries, visited, i))}

\* the value of every field after the visit of all entries
ClientSpecDecoded(entries, visited) ==
    [key \in RangeOf(ClientSpecFields) |->
        IF \E i \in 1..Len(entries) : entries[i][1] = key
        THEN visited[CHOOSE i \in 1..Len(entries) : entries[i][1] = key]
        ELSE ClientSpecMissing(key)]

ClientSpecMissingFields(decoded) ==
    {k \in 1..Len(ClientSpecFields) : IsErr(decoded[ClientSpecFields[k]])}

ClientSpecUnused(collect) == (1..Len(collect)) \ ParachainTaken(collect)

ClientSpecBuild(decoded, collect) ==
    IF ClientSpecMissingFields(decoded) # {}
    THEN decoded[ClientSpecFields[MinOf(ClientSpecMissingFields(decoded))]]
    ELSE IF ClientSpecUnused(collect) # {}
    THEN Err("unknown field", collect[MinOf(ClientSpecUnused(collect))][1])
    ELSE Val("ClientSpec", [
            name |-> decoded["name"].v,
            id |-> decoded["id"].v,
            chain_type |-> decoded["chainType"],
            code_substitutes |-> decoded["codeSubstitutes"].v,
            boot_nodes |-> decoded["bootNodes"].v,
            telemetry_endpoints |-> decoded["telemetryEndpoints"],
            protocol_id |-> decoded["protocolId"],
            fork_id |-> decoded["forkId"],
            properties |-> decoded["properties"],
            fork_blocks |-> decoded["forkBlocks"],
            bad_blocks |-> decoded["badBlocks"],
            genesis |-> decoded["genesis"],
            light_sync_state |-> decoded["lightSyncState"],
            parachain |-> ParachainDeserialize(collect)])

\* The derived visitor of a struct with a flattened field: every entry is
\* visited in order, an entry of a field of ClientSpec is decoded (a repeated
\* key or an undecodable value ends the decode there), any other entry is
\* kept in `collect`; then the fields that never appeared take their default
\* or are missing; then the flattened field is decoded from `collect`; then
\* (deny_unknown_fields) an entry left in `collect` is an unknown field.
ClientSpecVisitMap(entries, visited) ==
    IF ClientSpecBad(entries, visited) # {}
    THEN ClientSpecEntry(entries, visited, MinOf(ClientSpecBad(entries, visited)))
    ELSE ClientSpecBuild(ClientSpecDecoded(entries, visited),
                         SelectSeq(entries, IsOther))

ClientSpecDeserialize(json) ==
    IF json.kind # "obj" THEN InvalidType("struct ClientSpec")
    ELSE ClientSpecVisitMap(json.v,
            [i \in 1..Len(json.v) |->
                ClientSpecField(json.v[i][1], json.v[i][2])])

\* every order in which a hash table may iterate over the set S
Orders(S) ==
    {p \in [1..Cardinality(S) -> S] :
        \A i, j \in 1..Cardinality(S) : p[i] = p[j] => i = j}

CodeSubstitutesSerialize(map, order) ==
    JObj([i \in 1..Len(order) |->
            <<NumberAsStringSerialize(order[i]).v, HexStringToJson(map[order[i]])>>])

BootNodesSerialize(self) == JArr([i \in 1..Len(self) |-> JStr(self[i])])

TelemetryEndpointsSerialize(self) ==
    IF self.kind = "None" THEN JNull
    ELSE JArr([i \in 1..Len(self.v) |->
                JArr(<<JStr(self.v[i][1]), JNum(self.v[i][2])>>)])

ForkBlocksSerialize(self) ==
    IF self.kind = "None" THEN JNull
    ELSE JArr([i \in 1..Len(self.v) |->
                JArr(<<JNum(self.v[i][1]), HashHexStringToJson(self.v[i][2])>>)])

BadBlocksSerialize(self, order) ==
    IF self.kind = "None" THEN JNull
    ELSE JArr([i \in 1..Len(order) |-> HashHexStringToJson(order[i])])

OptionStringSerialize(self) ==
    IF self.kind = "None" THEN JNull ELSE JStr(self.v)

\* Option<Box<RawValue>> and Option<LightSyncState>: the kept JSON value
OptionJsonSerialize(self) ==
    IF self.kind = "None" THEN JNull ELSE self.v

\* the field written whether present or not
ForkIdSerializeAlways(fork_id) ==
    << <<"forkId", OptionStringSerialize(fork_id)>> >>

\* skip_serializing_if = "Option::is_none"
ForkIdSerialize(fork_id) ==
    IF fork_id.kind = "None" THEN <<>>
    ELSE << <<"forkId", OptionStringSerialize(fork_id)>> >>

ParachainSerialize(self) ==
    IF self.kind = "None" THEN <<>>
    ELSE << <<"relay_chain", JStr(self.v.relay_chain)>>,
            <<"para_id", JNum(self.v.para_id)>> >>

\* `subs` and `bad` are the iteration orders of the two hash tables
ClientSpecSerialize(self, subs, bad) ==
    JObj(<< <<"name", JStr(self.name)>>,
            <<"id", JStr(self.id)>>,
            <<"chainType", ChainTypeSerialize(self.chain_type)>>,
            <<"codeSubstitutes",
              CodeSubstitutesSerialize(self.code_substitutes, subs)>>,
            <<"bootNodes", BootNodesSerialize(self.boot_nodes)>>,
            <<"telemetryEndpoints",
              TelemetryEndpointsSerialize(self.telemetry_endpoints)>>,
            <<"protocolId", OptionStringSerialize(self.protocol_id)>> >>
         \o ForkIdSerialize(self.fork_id)
         \o << <<"properties", OptionJsonSerialize(self.properties)>>,
               <<"forkBlocks", ForkBlocksSerialize(self.fork_blocks)>>,
               <<"badBlocks", BadBlocksSerialize(self.bad_blocks, bad)>>,
               <<"genesis", GenesisSerialize(self.genesis)>>,
               <<"lightSyncState", OptionJsonSerialize(self.light_sync_state)>> >>
         \o ParachainSerialize(self.parachain))

BadBlocksOrders(self) ==
    IF self.bad_blocks.kind = "None" THEN {<<>>} ELSE Orders(self.bad_blocks.v)

(***************************************************************************)
(* The inputs the codecs are run on.                                       *)
(***************************************************************************)
TextChars == {"0", "x", "1", "a", "F", "g", "+"}

SpecialTexts ==
    { <<"1", "2", "3", "4", "5">>,
      <<"a", "b", "c">>,
      <<"0", "0", "7">>,
      <<"-", "1">>,
      <<"0", "X", "1", "a">>,
      <<"d", "e", "a", "d", "b", "e", "e", "f">>,
      <<"0", "x", "d", "e", "A", "D", "b", "e", "E", "F">>,
      <<"1", "8", "4", "4", "6", "7", "4", "4", "0", "7",
        "3", "7", "0", "9", "5", "5", "1", "6", "1", "5">>,
      <<"1", "8", "4", "4", "6", "7", "4", "4", "0", "7",
        "3", "7", "0", "9", "5", "5", "1", "6", "1", "6">>,
      <<"+", "0", "1", "8", "4", "4", "6", "7", "4", "4", "0", "7",
        "3", "7", "0", "9", "5", "5", "1", "6", "1", "5">>,
      <<"9", "9", "9", "9", "9", "9", "9", "9", "9", "9",
        "9", "9", "9", "9", "9", "9", "9", "9", "9", "9", "9">> }

Texts == SeqsUpTo(TextChars, MaxTextLen) \cup SpecialTexts

ByteVals == {0, 10, 127, 128, 255}

Strides == {0, 1, 37}

Pattern(n, b, stride) == [i \in 1..n |-> (b + (i - 1) * stride) % 256]

Hashes == {Pattern(HashLen, b, st) : b \in ByteVals, st \in Strides}

ByteStrings ==
    SeqsUpTo(ByteVals, MaxBytesLen)
    \cup {Pattern(n, b, st) : n \in {HashLen - 1, HashLen, HashLen + 1},
                              b \in ByteVals, st \in Strides}

Tx(bytes) == HexStringSerialize(bytes).v

\* entries of a `top` map: valid ones, the same key in upper case, a key
\* without prefix, a key with an odd number of digits, an invalid value
TopEntries ==
    { <<Tx(<<>>), JStr(Tx(<<1>>))>>,
      <<Tx(<<0>>), JStr(Tx(<<2>>))>>,
      <<Tx(<<10>>), JStr(Tx(<<3>>))>>,
      <<Tx(<<10, 0>>), JStr(Tx(<<4>>))>>,
      <<Tx(<<127>>), JStr(Tx(<<>>))>>,
      <<Tx(<<128>>), JStr(Tx(<<6>>))>>,
      <<Tx(<<255, 255>>), JStr(Tx(<<7>>))>>,
      <<<<"0", "x", "0", "A">>, JStr(Tx(<<8>>))>>,
      <<<<"0", "a">>, JStr(Tx(<<9>>))>>,
      <<<<"0", "x", "a">>, JStr(Tx(<<9>>))>>,
      <<Tx(<<1>>), JStr(<<"0", "1">>)>>,
      <<Tx(<<2>>), JNum(1)>> }

ChildOk == JObj(<< <<"childInfo", JArr(<<JNum(1), JNum(255)>>)>>,
                   <<"childType", JNum(1)>> >>)

ChildrenVariants ==
    { JObj(<<>>),
      JObj(<< <<Tx(<<128>>), ChildOk>>, <<Tx(<<1>>), ChildOk>> >>),
      JObj(<< <<Tx(<<1>>), JObj(<< <<"childType", JNum(1)>> >>)>> >>),
      JObj(<< <<<<"0", "1">>, ChildOk>> >>) }

HashText == Tx(Pattern(HashLen, 10, 1))

GenesisDocs ==
    {JObj(<< <<"raw", JObj(<< <<"top", JObj(top)>>,
                               <<"childrenDefault", JObj(<<>>)>> >>)>> >>) :
        top \in SeqsUpTo(TopEntries, MaxEntries)}
    \cup
    {JObj(<< <<"raw", JObj(<< <<"childrenDefault", ch>>,
                               <<"top", JObj(<<>>)>> >>)>> >>) :
        ch \in ChildrenVariants}
    \cup
    {JObj(<< <<"stateRootHash", JStr(Tx(h))>> >>) :
        h \in {Pattern(n, 10, 1) : n \in {0, HashLen - 1, HashLen, HashLen + 1}}}
    \cup
    { JObj(<<>>),
      JObj(<< <<"raw", JObj(<< <<"top", JObj(<<>>)>>,
                                <<"childrenDefault", JObj(<<>>)>> >>)>>,
              <<"stateRootHash", JStr(HashText)>> >>),
      JObj(<< <<"stateRootHash", JStr(HashText)>>,
              <<"raw", JObj(<< <<"top", JObj(<<>>)>>,
                                <<"childrenDefault", JObj(<<>>)>> >>)>> >>),
      JObj(<< <<"stateRootHash", JStr(HashText)>>,
              <<"stateRootHash", JStr(HashText)>> >>),
      JObj(<< <<"rawData", JObj(<<>>)>> >>),
      JObj(<< <<"raw", JObj(<< <<"top", JObj(<<>>)>> >>)>> >>),
      JObj(<< <<"raw", JObj(<< <<"childrenDefault", JObj(<<>>)>> >>)>> >>),
      JObj(<< <<"raw", JObj(<< <<"top", JObj(<<>>)>>,
                                <<"childrenDefault", JObj(<<>>)>>,
                                <<"extra", JNull>> >>)>> >>),
      JObj(<< <<"raw", JArr(<<JObj(<<>>), JObj(<<>>)>>)>> >>),
      JObj(<< <<"raw", JNull>> >>),
      JObj(<< <<"stateRootHash", JStr(Drop(HashText, 2))>> >>),
      JObj(<< <<"stateRootHash", JNum(0)>> >>),
      JStr(<<"r", "a", "w">>),
      JNull }

NameText == <<"d", "o", "t">>

GenesisOk == JObj(<< <<"stateRootHash", JStr(HashText)>> >>)

GenesisRawOk ==
    JObj(<< <<"raw", JObj(<< <<"top", JObj(<< <<Tx(<<128>>), JStr(Tx(<<1>>))>>,
                                               <<Tx(<<10>>), JStr(Tx(<<2>>))>> >>)>>,
                              <<"childrenDefault", JObj(<<>>)>> >>)>> >>)

\* the required fields, and variants where one is absent, empty or invalid
BaseDocs ==
    { << <<"name", JStr(NameText)>>, <<"id", JStr(NameText)>>,
         <<"bootNodes", JArr(<<>>)>>, <<"genesis", GenesisOk>> >>,
      << <<"genesis", GenesisRawOk>>, <<"bootNodes", JArr(<<JStr(NameText)>>)>>,
         <<"id", JStr(NameText)>>, <<"name", JStr(NameText)>> >>,
      << <<"name", JStr(<<>>)>>, <<"id", JStr(NameText)>>,
         <<"bootNodes", JArr(<<>>)>>, <<"genesis", GenesisOk>> >>,
      << <<"name", JStr(NameText)>>, <<"id", JStr(<<>>)>>,
         <<"bootNodes", JArr(<<>>)>>, <<"genesis", GenesisOk>> >>,
      << <<"id", JStr(NameText)>>,
         <<"bootNodes", JArr(<<>>)>>, <<"genesis", GenesisOk>> >>,
      << <<"name", JStr(NameText)>>,
         <<"bootNodes", JArr(<<>>)>>, <<"genesis", GenesisOk>> >>,
      << <<"name", JNull>>, <<"id", JStr(NameText)>>,
         <<"bootNodes", JArr(<<>>)>>, <<"genesis", GenesisOk>> >>,
      << <<"name", JStr(NameText)>>, <<"id", JStr(NameText)>>,
         <<"genesis", GenesisOk>> >>,
      << <<"name", JStr(NameText)>>, <<"id", JStr(NameText)>>,
         <<"bootNodes", JArr(<<>>)>>, <<"genesis", JObj(<<>>)>> >> }

\* a document with every optional field
FullDoc ==
    << <<"name", JStr(NameText)>>,
       <<"id", JStr(NameText)>>,
       <<"chainType", JObj(<< <<"Custom", JStr(NameText)>> >>)>>,
       <<"codeSubstitutes", JObj(<< <<<<"5">>, JStr(Tx(<<1>>))>>,
                                    <<<<"1", "0">>, JStr(Tx(<<2>>))>> >>)>>,
       <<"bootNodes", JArr(<<JStr(NameText), JStr(<<"a">>)>>)>>,
       <<"telemetryEndpoints", JArr(<<JArr(<<JStr(NameText), JNum(0)>>)>>)>>,
       <<"protocolId", JStr(NameText)>>,
       <<"forkId", JStr(<<"a", "b", "c">>)>>,
       <<"properties", JObj(<< <<"ss58Format", JNum(0)>> >>)>>,
       <<"forkBlocks", JArr(<<JArr(<<JNum(1), JStr(HashText)>>)>>)>>,
       <<"badBlocks", JArr(<<JStr(HashText), JStr(Tx(Pattern(HashLen, 0, 0))),
                             JStr(HashText)>>)>>,
       <<"consensusEngine", JNull>>,
       <<"genesis", GenesisRawOk>>,
       <<"lightSyncState", JObj(<<>>)>>,
       <<"relay_chain", JStr(NameText)>>,
       <<"para_id", JNum(1000)>> >>

\* entries added to a base document
ExtraEntries ==
    { <<"unknownKey", JNum(1)>>,
      <<"parachain", JObj(<< <<"relay_chain", JStr(NameText)>>,
                             <<"para_id", JNum(1000)>> >>)>>,
      <<"consensusEngine", JNull>>,
      <<"relay_chain", JStr(NameText)>>,
      <<"para_id", JNum(1000)>>,
      <<"para_id", JStr(NameText)>>,
      <<"forkId", JStr(<<"a", "b", "c">>)>>,
      <<"forkId", JNull>>,
      <<"protocolId", JStr(NameText)>>,
      <<"protocolId", JNull>>,
      <<"chainType", JStr(<<"L", "o", "c", "a", "l">>)>>,
      <<"forkId", JNum(1)>> }

\* entries of a `codeSubstitutes` map
SubstituteEntries ==
    { <<<<"0", "x">>, JStr(Tx(<<1>>))>>,
      <<<<"0", "x", "2", "a">>, JStr(Tx(<<2>>))>>,
      <<<<"0", "x", "F", "F", "0", "0">>, JStr(Tx(<<3>>))>>,
      <<<<"0">>, JStr(Tx(<<4>>))>>,
      <<<<"0", "0">>, JStr(Tx(<<5>>))>>,
      <<<<"4", "2">>, JStr(Tx(<<6>>))>>,
      <<<<"0", "x", "2">>, JStr(Tx(<<7>>))>>,
      <<<<"a", "b", "c">>, JStr(Tx(<<8>>))>>,
      <<<<"7">>, JStr(<<"0", "1">>)>> }

Documents ==
    {JObj(base \o extra) : base \in BaseDocs,
                           extra \in SeqsUpTo(ExtraEntries, MaxExtra)}
    \cup
    {JObj(<< <<"codeSubstitutes", JObj(subs)>> >> \o base) :
        base \in {b \in BaseDocs : Len(b) = 4 /\ b[1][2] = JStr(NameText)},
        subs \in SeqsUpTo(SubstituteEntries, MaxEntries)}
    \cup
    { JObj(FullDoc), JObj(<<>>), JArr(<<>>) }

Inputs ==
    {Val("text", t) : t \in Texts}
    \cup {Val("HexString", b) : b \in ByteStrings}
    \cup {Val("HashHexString", h) : h \in Hashes}
    \cup {Val("genesis", g) : g \in GenesisDocs}
    \cup {Val("document", d) : d \in Documents}

(***************************************************************************)
(* The state: the value the caller starts from, and the calls made so far, *)
(* each call applied to the result of the previous one.                    *)
(***************************************************************************)
Cur == IF hist = <<>> THEN input ELSE Last(hist).ret

Call(op, ret) ==
    /\ Len(hist) < MaxCalls
    /\ hist' = Append(hist, [op |-> op, arg |-> Cur, ret |-> ret])
    /\ UNCHANGED input

Init ==
    /\ input \in Inputs
    /\ hist = <<>>

HexString_serialize ==
    /\ Cur.kind = "HexString"
    /\ Call("HexString::serialize", HexStringSerialize(Cur.v))

HexString_deserialize ==
    /\ Cur.kind = "text"
    /\ Call("HexString::deserialize", HexStringDeserialize(Cur.v))

HashHexString_serialize ==
    /\ Cur.kind = "HashHexString"
    /\ Call("HashHexString::serialize", HashHexStringSerialize(Cur.v))

HashHexString_deserialize ==
    /\ Cur.kind = "text"
    /\ Call("HashHexString::deserialize", HashHexStringDeserialize(Cur.v))

NumberAsString_serialize ==
    /\ Cur.kind = "NumberAsString"
    /\ Call("NumberAsString::serialize", NumberAsStringSerialize(Cur.v))

NumberAsString_deserialize ==
    /\ Cur.kind = "text"
    /\ Call("NumberAsString::deserialize", NumberAsStringDeserialize(Cur.v))

Genesis_deserialize ==
    /\ Cur.kind = "genesis"
    /\ Call("Genesis::deserialize",
            LET ret == GenesisDeserialize(Cur.v)
            IN  IF IsErr(ret) THEN ret ELSE Val("Genesis", ret))

Genesis_serialize ==
    /\ Cur.kind = "Genesis"
    /\ Call("Genesis::serialize", Val("genesis", GenesisSerialize(Cur.v)))

ClientSpec_deserialize ==
    /\ Cur.kind = "document"
    /\ Call("ClientSpec::deserialize", ClientSpecDeserialize(Cur.v))

ClientSpec_serialize ==
    /\ Cur.kind = "ClientSpec"
    /\ \E subs \in Orders(DOMAIN Cur.v.code_substitutes) :
       \E bad \in BadBlocksOrders(Cur.v) :
            Call("ClientSpec::serialize",
                 Val("document", ClientSpecSerialize(Cur.v, subs, bad)))

Next ==
    \/ HexString_serialize
    \/ HexString_deserialize
    \/ HashHexString_serialize
    \/ HashHexString_deserialize
    \/ NumberAsString_serialize
    \/ NumberAsString_deserialize
    \/ Genesis_deserialize
    \/ Genesis_serialize
    \/ ClientSpec_deserialize
    \/ ClientSpec_serialize

Spec == Init /\ [][Next]_vars

(***************************************************************************)
(* Vocabulary of the properties.                                           *)
(***************************************************************************)
HexDigitChars ==
    {"0", "1", "2", "3", "4", "5", "6", "7", "8", "9",
     "a", "b", "c", "d", "e", "f", "A", "B", "C", "D", "E", "F"}

LowerHexChars ==
    {"0", "1", "2", "3", "4", "5", "6", "7", "8", "9",
     "a", "b", "c", "d", "e", "f"}

DecimalChars == {"0", "1", "2", "3", "4", "5", "6", "7", "8", "9"}

\* an even number of hex digits
IsHexText(t) == Len(t) % 2 = 0 /\ \A i \in 1..Len(t) : t[i] \in HexDigitChars

\* `0x` followed by an even number of hex digits
IsPrefixedHex(t) == StartsWith(t, Prefix0x) /\ IsHexText(Drop(t, 2))

Calls(op) == {i \in 1..Len(hist) : hist[i].op = op}

\* call i + 1 is `op`, applied to the result of call i
Then(i, op) == i < Len(hist) /\ hist[i + 1].op = op

IsOk(ret, kind) == ret.kind = kind

\* C2: for every byte sequence B, HexString encode gives `0x` followed by
\* exactly 2 * len(B) lowercase hex digits, and decoding that text succeeds
\* and yields exactly B.
C2_HexStringRoundTrip ==
    \A i \in Calls("HexString::serialize") :
        LET B == hist[i].arg.v
            t == hist[i].ret.v
        IN  /\ hist[i].ret.kind = "text"
            /\ Len(t) = 2 + 2 * Len(B)
            /\ SubSeq(t, 1, 2) = Prefix0x
            /\ \A j \in 3..Len(t) : t[j] \in LowerHexChars
            /\ Then(i, "HexString::deserialize") =>
                    /\ IsOk(hist[i + 1].ret, "HexString")
                    /\ hist[i + 1].ret.v = B

C2_Witness ==
    /\ Len(hist) = 2
    /\ hist[1].op = "HexString::serialize"
    /\ hist[2].op = "HexString::deserialize"
    /\ hist[1].arg.v = <<10, 255>>
    /\ hist[2].ret = Val("HexString", <<10, 255>>)

\* C3: for every 32-byte H, HashHexString decode(encode(H)) = H; and a text
\* `0x` + valid hex of N bytes, N # 32, fails to decode as a hash with a
\* length error reporting N; a decoded hash is never truncated or padded.
C3_HashLength ==
    /\ \A i \in Calls("HashHexString::serialize") :
            Then(i, "HashHexString::deserialize") =>
                /\ IsOk(hist[i + 1].ret, "HashHexString")
                /\ hist[i + 1].ret.v = hist[i].arg.v
    /\ \A i \in Calls("HashHexString::deserialize") :
            LET t == hist[i].arg.v
                N == (Len(t) - 2) \div 2
            IN  IsPrefixedHex(t) =>
                    IF N # 32
                    THEN /\ IsErr(hist[i].ret)
                         /\ hist[i].ret.v.msg =
                                "invalid length, expected a 32 bytes hash"
                         /\ hist[i].ret.v.n = N
                    ELSE /\ IsOk(hist[i].ret, "HashHexString")
                         /\ Len(hist[i].ret.v) = 32
                         /\ HexEncode(hist[i].ret.v) =
                                [j \in 1..(Len(t) - 2) |->
                                    IF \E k \in 1..16 : UpperHex[k] = t[j + 2]
                                    THEN LowerHex[CHOOSE k \in 1..16 :
                                                    UpperHex[k] = t[j + 2]]
                                    ELSE t[j + 2]]

C3_Witness ==
    /\ Len(hist) = 2
    /\ hist[1].op = "HexString::serialize"
    /\ Len(hist[1].arg.v) = 33
    /\ hist[2].op = "HashHexString::deserialize"
    /\ IsErr(hist[2].ret)
    /\ hist[2].ret.v.n = 33

\* the decimal digits of a text, after one optional leading `+`
DecimalBody(t) == IF Len(t) > 1 /\ t[1] = "+" THEN Tail(t) ELSE t

\* the number a decimal text writes, as a numeral without leading zeros
DecimalNumeral(t) ==
    StripZeros([i \in 1..Len(DecimalBody(t)) |->
                    CHOOSE d \in 0..9 : Digits[d + 1] = DecimalBody(t)[i]])

\* the text is what `u64::from_str` accepts
IsDecimalU64(t) ==
    /\ DecimalBody(t) # <<>>
    /\ \A i \in 1..Len(DecimalBody(t)) : DecimalBody(t)[i] \in DecimalChars
    /\ ~NumeralGreater(DecimalNumeral(t), U64MaxNumeral)

\* C4: NumberAsString decode is three-way: a text starting with `0x`
\* yields 0 when the rest is valid hex and fails otherwise (no fallback to
\* decimal); any other text that parses as a decimal u64 yields that
\* integer; anything else fails with the 'neither hexadecimal nor decimal'
\* error.
C4_NumberThreeWay ==
    \A i \in Calls("NumberAsString::deserialize") :
        IF StartsWith(hist[i].arg.v, Prefix0x)
        THEN IF IsHexText(Drop(hist[i].arg.v, 2))
             THEN /\ IsOk(hist[i].ret, "NumberAsString")
                  /\ hist[i].ret.v = <<0>>
             ELSE IsErr(hist[i].ret)
        ELSE IF IsDecimalU64(hist[i].arg.v)
        THEN /\ IsOk(hist[i].ret, "NumberAsString")
             /\ hist[i].ret.v = DecimalNumeral(hist[i].arg.v)
        ELSE /\ IsErr(hist[i].ret)
             /\ hist[i].ret.v.msg =
                    "block number is neither hexadecimal nor decimal"

C4_Witness ==
    /\ Len(hist) = 1
    /\ hist[1].op = "NumberAsString::deserialize"
    /\ hist[1].arg.v = <<"0", "x", "1", "a">>
    /\ hist[1].ret = Val("NumberAsString", <<0>>)

\* C5: HexString decode succeeds exactly on `0x` followed by an even
\* number of hex digits; `0x` alone yields the empty byte sequence; a text
\* without the prefix, with an odd number of digits or with a non-hex
\* character fails.
C5_HexStringDecode ==
    \A i \in Calls("HexString::deserialize") :
        /\ IsPrefixedHex(hist[i].arg.v) <=> IsOk(hist[i].ret, "HexString")
        /\ ~IsPrefixedHex(hist[i].arg.v) <=> IsErr(hist[i].ret)
        /\ hist[i].arg.v = Prefix0x => hist[i].ret = Val("HexString", <<>>)

C5_Witness ==
    /\ Len(hist) = 1
    /\ hist[1].op = "HexString::deserialize"
    /\ hist[1].arg.v = <<"d", "e", "a", "d", "b", "e", "e", "f">>
    /\ IsErr(hist[1].ret)
    /\ hist[1].ret.v.msg = "hexadecimal string doesn't start with 0x"

\* the value of the first entry with key k
Lookup(entries, k) ==
    entries[CHOOSE i \in 1..Len(entries) : entries[i][1] = k][2]

HasKey(entries, k) == \E i \in 1..Len(entries) : entries[i][1] = k

\* the `top` or `childrenDefault` part of a `raw` JSON value that decoded
RawPart(raw, name) ==
    IF raw.kind = "obj" THEN Lookup(raw.v, name)
    ELSE IF name = "top" THEN raw.v[1] ELSE raw.v[2]

\* every key of the map is `0x` + hex; so is every value when `strings`
ValidStorage(map, strings) ==
    /\ map.kind = "obj"
    /\ \A e \in 1..Len(map.v) :
        /\ IsPrefixedHex(map.v[e][1])
        /\ strings => /\ map.v[e][2].kind = "str"
                      /\ IsPrefixedHex(map.v[e][2].v)

\* C6: the genesis field decodes only from an object with exactly one of
\* the keys `raw` and `stateRootHash`: no key, both keys or another key
\* fails; a `raw` genesis whose storage keys or values are not valid `0x`
\* hex fails; a decoded genesis is the one variant its key names.
C6_GenesisShape ==
    \A i \in Calls("Genesis::deserialize") :
        /\ IsOk(hist[i].ret, "Genesis") =>
            /\ hist[i].arg.v.kind = "obj"
            /\ Len(hist[i].arg.v.v) = 1
            /\ hist[i].arg.v.v[1][1] \in {"raw", "stateRootHash"}
            /\ hist[i].arg.v.v[1][1] = "raw" =>
                /\ hist[i].ret.v.kind = "Raw"
                /\ ValidStorage(RawPart(hist[i].arg.v.v[1][2], "top"), TRUE)
                /\ ValidStorage(RawPart(hist[i].arg.v.v[1][2], "childrenDefault"),
                                FALSE)
            /\ hist[i].arg.v.v[1][1] = "stateRootHash" =>
                /\ hist[i].ret.v.kind = "StateRootHash"
                /\ hist[i].arg.v.v[1][2].kind = "str"
                /\ IsPrefixedHex(hist[i].arg.v.v[1][2].v)
                /\ Len(hist[i].arg.v.v[1][2].v) = 2 + 2 * 32
        /\ ~IsOk(hist[i].ret, "Genesis") => IsErr(hist[i].ret)

C6_Witness ==
    /\ Len(hist) = 1
    /\ hist[1].op = "Genesis::deserialize"
    /\ hist[1].arg.v.kind = "obj"
    /\ Len(hist[1].arg.v.v) = 2
    /\ hist[1].arg.v.v[1][1] = "raw"
    /\ hist[1].arg.v.v[2][1] = "stateRootHash"
    /\ IsErr(hist[1].ret)

\* unsigned byte-lexicographic order: at the first position where the two
\* differ a has the smaller byte, or a ends there and b goes on
LexBefore(a, b) ==
    \E n \in 0..Len(a) :
        /\ n <= Len(b)
        /\ SubSeq(a, 1, n) = SubSeq(b, 1, n)
        /\ IF n = Len(a) THEN n < Len(b)
           ELSE n < Len(b) /\ a[n + 1] < b[n + 1]

KeyBytes(text) == HexDecodeBytes(Drop(text, 2))

Ascending(entries) ==
    \A j \in 1..(Len(entries) - 1) :
        LexBefore(KeyBytes(entries[j][1]), KeyBytes(entries[j + 1][1]))

DistinctKeys(entries) ==
    \A j, k \in 1..Len(entries) :
        KeyBytes(entries[j][1]) = KeyBytes(entries[k][1]) => j = k

\* the raw genesis object `raw` with the entries of its map `name` reordered
Reordered(raw, name, p) ==
    JObj(<< <<"raw",
        JObj([j \in 1..Len(raw.v) |->
                IF raw.v[j][1] = name
                THEN <<name, JObj([k \in 1..Len(p) |-> raw.v[j][2].v[p[k]]])>>
                ELSE raw.v[j]])>> >>)

SortedMap(src, out, name) ==
    DistinctKeys(Lookup(src.v, name).v) =>
        /\ Len(Lookup(out.v, name).v) = Len(Lookup(src.v, name).v)
        /\ Ascending(Lookup(out.v, name).v)
        /\ \A p \in Orders(1..Len(Lookup(src.v, name).v)) :
                GenesisSerialize(GenesisDeserialize(Reordered(src, name, p)))
                    = JObj(<< <<"raw", out>> >>)

\* C8: re-encoding a decoded raw genesis emits the entries of `top` and of
\* `childrenDefault` in ascending unsigned byte-lexicographic order of the
\* decoded keys, whatever their order in the document (keys of distinct
\* byte values): a strict prefix comes first, and every permutation of the
\* entries gives the same output.
C8_StorageOrder ==
    \A i \in Calls("Genesis::serialize") :
        (/\ i > 1
         /\ hist[i - 1].op = "Genesis::deserialize"
         /\ hist[i].arg.v.kind = "Raw"
         /\ hist[i - 1].arg.v.v[1][2].kind = "obj")
        => /\ SortedMap(hist[i - 1].arg.v.v[1][2], hist[i].ret.v.v[1][2], "top")
           /\ SortedMap(hist[i - 1].arg.v.v[1][2], hist[i].ret.v.v[1][2],
                        "childrenDefault")

C8_Witness ==
    /\ Len(hist) = 2
    /\ hist[1].op = "Genesis::deserialize"
    /\ hist[2].op = "Genesis::serialize"
    /\ hist[2].arg.v.kind = "Raw"
    /\ hist[1].arg.v.v[1][2].kind = "obj"
    /\ Len(Lookup(hist[1].arg.v.v[1][2].v, "top").v) = 2
    /\ KeyBytes(Lookup(hist[1].arg.v.v[1][2].v, "top").v[1][1]) = <<10, 0>>
    /\ KeyBytes(Lookup(hist[1].arg.v.v[1][2].v, "top").v[2][1]) = <<10>>
    /\ KeyBytes(Lookup(hist[2].ret.v.v[1][2].v, "top").v[1][1]) = <<10>>

\* the top-level keys the specification documents
DocumentedFields ==
    {"name", "id", "chainType", "codeSubstitutes", "bootNodes",
     "telemetryEndpoints", "protocolId", "forkId", "properties", "forkBlocks",
     "badBlocks", "genesis", "lightSyncState", "relay_chain", "para_id"}

\* the keys the decoder knows: the documented ones and `consensusEngine`
RecognizedFields == DocumentedFields \cup {"consensusEngine"}

IsRecognized(entry) == entry[1] \in RecognizedFields

Unrecognized(entries) ==
    {e \in 1..Len(entries) : entries[e][1] \notin RecognizedFields}

\* the document decodes once its unrecognized entries are removed
DecodesWithout(entries) ==
    IsOk(ClientSpecDeserialize(JObj(SelectSeq(entries, IsRecognized))),
         "ClientSpec")

\* C1 (as stated): decoding fails whenever the top-level object has a key
\* that is not one of the fifteen documented fields.
C1_OnlyDocumentedFields ==
    \A i \in Calls("ClientSpec::deserialize") :
        (/\ hist[i].arg.v.kind = "obj"
         /\ \E e \in 1..Len(hist[i].arg.v.v) :
                hist[i].arg.v.v[e][1] \notin DocumentedFields)
        => IsErr(hist[i].ret)

\* C1 (amended): decoding fails whenever the top-level object has a key
\* that is neither a documented field nor `consensusEngine`; a `parachain`
\* sub-object key is rejected; and when the document decodes without its
\* unrecognized keys, the error is an unknown-field error naming the first
\* unrecognized key.
C1_UnknownFieldRejected ==
    \A i \in Calls("ClientSpec::deserialize") :
        (/\ hist[i].arg.v.kind = "obj"
         /\ Unrecognized(hist[i].arg.v.v) # {})
        => /\ IsErr(hist[i].ret)
           /\ DecodesWithout(hist[i].arg.v.v) =>
                /\ hist[i].ret.v.msg = "unknown field"
                /\ hist[i].ret.v.n =
                    hist[i].arg.v.v[MinOf(Unrecognized(hist[i].arg.v.v))][1]

C1_Witness ==
    /\ Len(hist) = 1
    /\ hist[1].op = "ClientSpec::deserialize"
    /\ hist[1].arg.v.kind = "obj"
    /\ HasKey(hist[1].arg.v.v, "parachain")
    /\ HasKey(hist[1].arg.v.v, "consensusEngine")
    /\ DecodesWithout(hist[1].arg.v.v)
    /\ hist[1].ret = Err("unknown field", "parachain")

\* the field is absent, or is the empty string
AbsentOrEmpty(entries, k) ==
    \/ ~HasKey(entries, k)
    \/ Lookup(entries, k) = JStr(<<>>)

\* C7 (as stated): a document whose `name` or `id` is absent or is the
\* empty string fails the whole-document decode.
C7_NameIdNonEmpty ==
    \A i \in Calls("ClientSpec::deserialize") :
        (/\ hist[i].arg.v.kind = "obj"
         /\ \/ AbsentOrEmpty(hist[i].arg.v.v, "name")
            \/ AbsentOrEmpty(hist[i].arg.v.v, "id"))
        => IsErr(hist[i].ret)

\* C7 (amended): a document whose `name` or `id` is absent, or is not a
\* text, fails the whole-document decode; any text, the empty string
\* included, is accepted and decoded as it is.
C7_NameIdRequired ==
    \A i \in Calls("ClientSpec::deserialize") :
        hist[i].arg.v.kind = "obj" =>
            /\ (~HasKey(hist[i].arg.v.v, "name") \/ ~HasKey(hist[i].arg.v.v, "id"))
                    => IsErr(hist[i].ret)
            /\ IsOk(hist[i].ret, "ClientSpec") =>
                    /\ Lookup(hist[i].arg.v.v, "name").kind = "str"
                    /\ Lookup(hist[i].arg.v.v, "id").kind = "str"
                    /\ hist[i].ret.v.name = Lookup(hist[i].arg.v.v, "name").v
                    /\ hist[i].ret.v.id = Lookup(hist[i].arg.v.v, "id").v

C7_Witness ==
    /\ Len(hist) = 1
    /\ hist[1].op = "ClientSpec::deserialize"
    /\ hist[1].arg.v.kind = "obj"
    /\ ~HasKey(hist[1].arg.v.v, "name")
    /\ HasKey(hist[1].arg.v.v, "id")
    /\ HasKey(hist[1].arg.v.v, "genesis")
    /\ hist[1].ret = Err("missing field", "name")

\* C9: a document without `forkId` decodes to an absent fork id and its
\* re-encoding has no `forkId` key at all; a document whose `forkId` is a
\* text re-encodes with `forkId` set to the same text.
C9_ForkIdPresence ==
    \A i \in Calls("ClientSpec::serialize") :
        (i > 1 /\ hist[i - 1].op = "ClientSpec::deserialize") =>
            /\ ~HasKey(hist[i - 1].arg.v.v, "forkId") =>
                    /\ hist[i].arg.v.fork_id.kind = "None"
                    /\ ~HasKey(hist[i].ret.v.v, "forkId")
            /\ (/\ HasKey(hist[i - 1].arg.v.v, "forkId")
                /\ Lookup(hist[i - 1].arg.v.v, "forkId").kind = "str") =>
                    /\ hist[i].arg.v.fork_id.kind = "Some"
                    /\ Cardinality({e \in 1..Len(hist[i].ret.v.v) :
                                    hist[i].ret.v.v[e][1] = "forkId"}) = 1
                    /\ Lookup(hist[i].ret.v.v, "forkId")
                            = Lookup(hist[i - 1].arg.v.v, "forkId")

C9_Witness ==
    /\ Len(hist) = 2
    /\ hist[1].op = "ClientSpec::deserialize"
    /\ hist[2].op = "ClientSpec::serialize"
    /\ ~HasKey(hist[1].arg.v.v, "forkId")
    /\ ~HasKey(hist[2].ret.v.v, "forkId")
    /\ Lookup(hist[2].ret.v.v, "protocolId") = JNull

IsSubstitutes(entry) == entry[1] = "codeSubstitutes"

IsNotSubstitutes(entry) == entry[1] # "codeSubstitutes"

\* a key of `codeSubstitutes` that decodes to the number 0: `0x` + hex, or
\* the decimal zero
IsZeroKey(text) ==
    \/ IsPrefixedHex(text)
    \/ text # <<>> /\ \A c \in 1..Len(text) : text[c] = "0"

\* the document has one `codeSubstitutes` object, of at least one entry,
\* whose keys all decode to 0 and whose values are `0x` hex texts, and it
\* decodes once that field is removed
OnlyZeroKeys(entries) ==
    /\ Len(SelectSeq(entries, IsSubstitutes)) = 1
    /\ Lookup(entries, "codeSubstitutes").kind = "obj"
    /\ Lookup(entries, "codeSubstitutes").v # <<>>
    /\ \A e \in 1..Len(Lookup(entries, "codeSubstitutes").v) :
        /\ IsZeroKey(Lookup(entries, "codeSubstitutes").v[e][1])
        /\ Lookup(entries, "codeSubstitutes").v[e][2].kind = "str"
        /\ IsPrefixedHex(Lookup(entries, "codeSubstitutes").v[e][2].v)
    /\ IsOk(ClientSpecDeserialize(JObj(SelectSeq(entries, IsNotSubstitutes))),
            "ClientSpec")

====
